---- MODULE Spec2Model ----
(***************************************************************************)
(* A model of the CAT function pass of src/src/CatPass.cpp: the DFA_SET    *)
(* bit-vector sets, the kill oracle isKilledBy, the constant oracles       *)
(* definesAsConstant and defines, and the three passes of runOnFunction    *)
(* (GEN/KILL, IN/OUT fixed point, propagation/folding plan) followed by    *)
(* the two rewriting loops.  A second specification runs the analysed      *)
(* function itself, to compare the plan with the values a Read observes.   *)
(***************************************************************************)
EXTENDS Integers, Sequences, FiniteSets, TLC

VARIABLES
    F,                \* the function under analysis (blocks, CFG edges, instructions)
    pc,               \* position of runOnFunction: pass1, pass2, pass3, applyProp, applyFold, done, crashed
    index,            \* the reusable index variable of runOnFunction
    DFA,              \* std::vector<DFA_SET*> DFA
    out_has_changed,  \* flag of the do/while of Pass 2
    rounds,           \* number of completed sweeps of Pass 2 (history, not read by the pass)
    propagations,     \* std::map<Instruction*, Value*> propagations
    foldings,         \* std::map<Instruction*, int> foldings
    has_modified_code,
    crash,            \* why the pass stopped abnormally, "" when it did not
    ex                \* the state of one execution of the analysed function

vars == <<F, pc, index, DFA, out_has_changed, rounds, propagations, foldings,
          has_modified_code, crash, ex>>

----------------------------------------------------------------------------
(* Bounds of the model.                                                    *)

\* depth of recursion of definesAsConstant the machine stack holds
MaxStack == 6
\* number of instructions one execution of the analysed function runs
MaxExecSteps == 12
\* number of loop bodies of the chained-loop functions
MaxChain == 3
\* number of sweeps of Pass 2 the counter rounds tells apart
MaxRounds == 4

----------------------------------------------------------------------------
(* Machine integers.  A 64-bit value (ConstantInt of type i64, int64_t of  *)
(* getSExtValue) is a little-endian sequence of four 16-bit limbs, a C++   *)
(* int is a sequence of two.                                               *)

LimbBase == 2^16

RECURSIVE AddCarry(_, _, _, _)
AddCarry(x, y, i, c) ==
    IF i > Len(x) THEN <<>>
    ELSE LET s == x[i] + y[i] + c
         IN  <<s % LimbBase>> \o AddCarry(x, y, i + 1, s \div LimbBase)

NotW(x) == [i \in 1..Len(x) |-> LimbBase - 1 - x[i]]
\* two's-complement addition and subtraction, wrapping at the width of x
AddW(x, y) == AddCarry(x, y, 1, 0)
SubW(x, y) == AddCarry(x, NotW(y), 1, 1)
IsNegW(x) == x[Len(x)] >= LimbBase \div 2

\* int64_t -> int (int val1 = c_val->getSExtValue()): the low 32 bits
TruncInt(x) == SubSeq(x, 1, 2)
\* int -> int64_t (the usual arithmetic conversion in val1 != c_val->getSExtValue(),
\* and APInt(64, int, true)): sign extension
SExtInt(v) == v \o (IF IsNegW(v) THEN <<LimbBase - 1, LimbBase - 1>> ELSE <<0, 0>>)

\* x + y or x - y in 64-bit two's complement, wrapping
Combine64(f_name, x, y) == IF f_name = "CAT_add" THEN AddW(x, y) ELSE SubW(x, y)

Lit(n) == <<n, 0, 0, 0>>
Zero64 == Lit(0)
\* 2^32 + n
LitHi(n) == <<n, 0, 1, 0>>
\* INT_MAX = 2^31 - 1
IntMax64 == <<LimbBase - 1, LimbBase \div 2 - 1, 0, 0>>

----------------------------------------------------------------------------
(* llvm::Value: an Instruction, a ConstantInt or a function Argument.      *)

VI(id) == [k |-> "i", id |-> id, w |-> Zero64]
VC(w)  == [k |-> "c", id |-> 0, w |-> w]
VA(n)  == [k |-> "a", id |-> n, w |-> Zero64]
\* what an out-of-range getArgOperand yields in a build that does not trap
Garbage == [k |-> "u", id |-> 0, w |-> Zero64]

(* llvm::Instruction.  callee = "" is a call with no statically known       *)
(* callee (getCalledFunction() == nullptr).                                 *)
Call(f, a)    == [op |-> "call", callee |-> f, args |-> a, inb |-> <<>>]
New(v)        == Call("CAT_new", <<v>>)
Get(v)        == Call("CAT_get", <<v>>)
Set(t, v)     == Call("CAT_set", <<t, v>>)
Add(t, a, b)  == Call("CAT_add", <<t, a, b>>)
Sub(t, a, b)  == Call("CAT_sub", <<t, a, b>>)
Opaque(a)     == Call("opaque", a)
ICall(a)      == Call("", a)
Phi(vals, bs) == [op |-> "phi", callee |-> "", args |-> vals, inb |-> bs]
\* StoreInst: args = <<value operand, pointer operand>>
Store(v, p)   == [op |-> "store", callee |-> "", args |-> <<v, p>>, inb |-> <<>>]
Load(p)       == [op |-> "load", callee |-> "", args |-> <<p>>, inb |-> <<>>]
Br            == [op |-> "br", callee |-> "", args |-> <<>>, inb |-> <<>>]
Ret           == [op |-> "ret", callee |-> "", args |-> <<>>, inb |-> <<>>]
\* any other instruction (an alloca, an integer add, a compare)
Other         == [op |-> "other", callee |-> "", args |-> <<>>, inb |-> <<>>]

CAT_API == {"CAT_add", "CAT_sub", "CAT_new", "CAT_get", "CAT_set"}

Inst(id) == F.inst[id]
NumBlocks == Len(F.blocks)
isCallInst(id) == Inst(id).op = "call"
isPHINode(id) == Inst(id).op = "phi"
isStoreInst(id) == Inst(id).op = "store"
isLoadInst(id) == Inst(id).op = "load"
getNumArgOperands(id) == Len(Inst(id).args)
getArgOperand(id, n) ==
    IF n + 1 <= Len(Inst(id).args) THEN Inst(id).args[n + 1] ELSE Garbage
\* dyn_cast<CallInst>(v) != nullptr, dyn_cast<Instruction>(v) != nullptr
valueIsCallInst(v) == v.k = "i" /\ isCallInst(v.id)
valueIsInstruction(v) == v.k = "i"
isConstantInt(v) == v.k = "c"
getTerminator(b) == F.blocks[b][Len(F.blocks[b])]
predecessors(b) == {p \in 1..NumBlocks : b \in F.succ[p]}

----------------------------------------------------------------------------
(* Reachability and the order runOnFunction visits instructions in.        *)

RECURSIVE SuccClosure(_)
SuccClosure(S) ==
    LET N == S \cup UNION {F.succ[b] : b \in S}
    IN  IF N = S THEN S ELSE SuccClosure(N)

\* DTgetNode with the unreachable-block test lost: every block has a node
DTgetNodeEveryBlock(b) == b \in 1..NumBlocks

\* DT.getNode(&B) != NULL: the dominator tree has a node for exactly the
\* blocks reachable from the entry block
DTgetNode(b) == b \in SuccClosure({1})

\* for (auto& B : F) { if (DT.getNode(&B) == NULL) continue; for (auto& I : B) ... }
RECURSIVE CatalogFrom(_)
CatalogFrom(b) ==
    IF b > NumBlocks THEN <<>>
    ELSE (IF DTgetNode(b) THEN F.blocks[b] ELSE <<>>) \o CatalogFrom(b + 1)

Catalog == CatalogFrom(1)

\* whether the instruction visited at position n (0-based) begins its block (bool first)
IsFirst(n) ==
    LET I == Catalog[n + 1]
    IN  \E b \in 1..NumBlocks : F.blocks[b][1] = I /\ DTgetNode(b)
BlockOf(id) == CHOOSE b \in 1..NumBlocks : \E k \in 1..Len(F.blocks[b]) : F.blocks[b][k] = id

----------------------------------------------------------------------------
(* DFA_SET.  A BitVector is the set of its set bits; indices are 0-based.  *)

DFA_SET(I) == [inst |-> I, gen |-> {}, kill |-> {}, in |-> {}, out |-> {}, alias |-> Garbage]
\* void DFA_SET::add(const int i, const int set) and add(const BitVector*, const int set)
addBit(v, i) == v \cup {i}
\* addSet with ^= in the place of |=
addSetToggles(v, w) == (v \ w) \cup (w \ v)
addSet(v, w) == v \cup w
\* DFA[i] of the code (0-based)
At(i) == DFA[i + 1]
getInstruction(i) == At(i).inst

----------------------------------------------------------------------------
(* The oracles.                                                            *)

IsRedefName(f) == f = "CAT_add" \/ f = "CAT_sub" \/ f = "CAT_set"

\* bool isKilledBy(const Instruction* L, const Instruction* R)
isKilledBy(L, R) ==
    IF ~isCallInst(R) THEN FALSE
    ELSE IF ~IsRedefName(Inst(R).callee) THEN FALSE
    ELSE LET r_operand == getArgOperand(R, 0)
         IN  IF VI(L) = r_operand THEN TRUE
             ELSE IF isCallInst(L)
                  THEN IF ~IsRedefName(Inst(L).callee) THEN FALSE
                       ELSE LET l_operand == getArgOperand(L, 0)
                            IN  valueIsCallInst(l_operand) /\ l_operand = r_operand
                  ELSE FALSE

\* bool defines(const Instruction* L, const Value* R)
defines(L, R) ==
    IF isCallInst(L)
    THEN LET f_name == Inst(L).callee
         IN  IF f_name = "CAT_new" THEN VI(L) = R
             ELSE IF IsRedefName(f_name) THEN getArgOperand(L, 0) = R
             ELSE IF f_name = "CAT_get" THEN FALSE
             ELSE \E i \in 0..(getNumArgOperands(L) - 1) : getArgOperand(L, i) = R
    ELSE IF isPHINode(L) THEN VI(L) = R
    ELSE FALSE

(* ConstantInt* definesAsConstant(L, R, originalPhi).  The result is the   *)
(* constant, nullptr, or "overflow" when the recursion needs more than     *)
(* fuel frames of stack.  NoPhi is originalPhi == nullptr.                 *)
NullPtr == [k |-> "null", w |-> Zero64]
StackOverflow == [k |-> "overflow", w |-> Zero64]
ConstPtr(w) == [k |-> "const", w |-> w]
NoPhi == 0

RECURSIVE definesAsConstantRec(_, _, _, _)
RECURSIVE phiIncoming(_, _, _, _, _, _, _)

\* the loop over the incoming values of phiInst, from incoming value i on
phiIncoming(phiInst, guard, i, all_consts, val_set, val, fuel) ==
    IF i >= getNumArgOperands(phiInst)
    THEN (IF all_consts THEN val ELSE NullPtr)
    ELSE LET inc == getArgOperand(phiInst, i)
         IN  IF valueIsInstruction(inc)
             THEN LET c == definesAsConstantRec(inc.id, inc, guard, fuel - 1)
                  IN  IF c.k = "overflow" THEN StackOverflow
                      ELSE IF c.k = "const"
                      THEN IF ~val_set
                           THEN phiIncoming(phiInst, guard, i + 1, all_consts, TRUE, c, fuel)
                           ELSE IF val.w # c.w THEN NullPtr
                           ELSE phiIncoming(phiInst, guard, i + 1, all_consts, val_set, val, fuel)
                      ELSE NullPtr
             ELSE phiIncoming(phiInst, guard, i + 1, FALSE, val_set, val, fuel)

definesAsConstantRec(L, R, originalPhi, fuel) ==
    IF fuel = 0 THEN StackOverflow
    ELSE IF isCallInst(L) /\ Inst(L).callee = "CAT_new" /\ VI(L) = R
            /\ isConstantInt(getArgOperand(L, 0))
    THEN ConstPtr(getArgOperand(L, 0).w)
    ELSE IF isCallInst(L) /\ Inst(L).callee = "CAT_set" /\ getArgOperand(L, 0) = R
            /\ isConstantInt(getArgOperand(L, 1))
    THEN ConstPtr(getArgOperand(L, 1).w)
    ELSE IF isPHINode(L)
    THEN IF L = originalPhi THEN NullPtr
         ELSE phiIncoming(L, IF originalPhi = NoPhi THEN L ELSE originalPhi,
                          0, TRUE, FALSE, NullPtr, fuel)
    ELSE NullPtr

definesAsConstant(L, R) == definesAsConstantRec(L, R, NoPhi, MaxStack)

----------------------------------------------------------------------------
(* Pass 1: GEN/KILL, one instruction per step.                             *)

\* the instruction Pass 1 / Pass 2 / Pass 3 is at
Cur == Catalog[index + 1]
AtEnd == index + 1 = Len(Catalog)
Earlier == 0..(Len(DFA) - 1)

\* API call other than CAT_get: the earlier instructions callInst kills
KilledByApiCall(callInst) ==
    {i \in Earlier : isKilledBy(getInstruction(i), callInst)}

\* non-API call on an alias (a pointer a StoreInst stored a tracked value to):
\* the store and the earlier instruction it aliases
KilledThroughAlias(callInst) ==
    UNION {
        IF isStoreInst(getInstruction(i))
           /\ \E j \in 0..(getNumArgOperands(callInst) - 1) :
                  getArgOperand(getInstruction(i), 1) = getArgOperand(callInst, j)
        THEN UNION {{i, k} : k \in {k \in 0..(i - 1) : VI(getInstruction(k)) = At(i).alias}}
        ELSE {} : i \in Earlier}

\* non-API call holding the result of a CAT_new as an argument
KilledAsArgument(callInst) ==
    {i \in Earlier :
        /\ \E j \in 0..(getNumArgOperands(callInst) - 1) :
               getArgOperand(callInst, j) = VI(getInstruction(i))
        /\ isCallInst(getInstruction(i))
        /\ Inst(getInstruction(i)).callee = "CAT_new"}

KilledByPhi(phiInst) ==
    {i \in Earlier : defines(getInstruction(i), VI(phiInst))}

KilledByLoad(loadInst) ==
    {i \in Earlier :
        /\ isStoreInst(getInstruction(i))
        /\ getArgOperand(loadInst, 0) = getArgOperand(getInstruction(i), 1)}

\* the earlier instructions I and which kill each other, as Pass 1 records them
Killed(I) ==
    IF isCallInst(I)
    THEN LET name == Inst(I).callee
         IN  IF name \in CAT_API /\ name # "CAT_get" THEN KilledByApiCall(I)
             ELSE IF name \notin CAT_API
                  THEN KilledThroughAlias(I) \cup KilledAsArgument(I)
             ELSE {}
    ELSE IF isPHINode(I) THEN KilledByPhi(I)
    ELSE IF isLoadInst(I) THEN KilledByLoad(I)
    ELSE {}

\* GenOf with GEN filled in for calls and phis only
GenOfCallsAndPhis(I, n) == IF isCallInst(I) \/ isPHINode(I) THEN addBit({}, n) ELSE {}

\* p_dfa->add(index, DFA_SET::GEN)
GenOf(I, n) == addBit({}, n)

\* the undefined behaviour Pass 1 runs into at I: a null callee dereferenced
\* (line 344), or argument 0 of a redefinition that has no arguments read
\* by isKilledBy (line 180)
NullCallee(I) == isCallInst(I) /\ Inst(I).callee = ""
MissingOperand(I) ==
    /\ isCallInst(I) /\ IsRedefName(Inst(I).callee)
    /\ \/ getNumArgOperands(I) = 0 /\ Len(DFA) > 0
       \/ \E i \in Earlier :
              LET L == getInstruction(i)
              IN  /\ isCallInst(L) /\ IsRedefName(Inst(L).callee)
                  /\ getNumArgOperands(L) = 0
                  /\ VI(L) # getArgOperand(I, 0)

Pass1Advance ==
    IF AtEnd
    THEN pc' = "pass2" /\ index' = 0
    ELSE pc' = "pass1" /\ index' = index + 1

\* the step of a build in which the undefined behaviour, if any, goes unnoticed
Pass1Step ==
    /\ pc = "pass1"
    /\ LET I == Cur
           K == Killed(I)
           p_dfa == [DFA_SET(I) EXCEPT
                        !.gen = GenOf(I, index),
                        !.kill = addSet({}, K),
                        !.alias = IF isStoreInst(I) THEN getArgOperand(I, 0) ELSE Garbage]
       IN  DFA' = [i \in 1..Len(DFA) |->
                      IF (i - 1) \in K
                      THEN [DFA[i] EXCEPT !.kill = addBit(@, index)]
                      ELSE DFA[i]] \o <<p_dfa>>
    /\ Pass1Advance
    /\ UNCHANGED <<F, out_has_changed, rounds, propagations, foldings,
                   has_modified_code, crash, ex>>

\* the step of a build in which dereferencing the null callee traps
Pass1NullCallee ==
    /\ pc = "pass1"
    /\ NullCallee(Cur)
    /\ pc' = "crashed"
    /\ crash' = "null callee"
    /\ UNCHANGED <<F, index, DFA, out_has_changed, rounds, propagations, foldings,
                   has_modified_code, ex>>

\* the step of a build in which the out-of-range getArgOperand asserts
Pass1MissingOperand ==
    /\ pc = "pass1"
    /\ MissingOperand(Cur)
    /\ pc' = "crashed"
    /\ crash' = "missing operand"
    /\ UNCHANGED <<F, index, DFA, out_has_changed, rounds, propagations, foldings,
                   has_modified_code, ex>>

----------------------------------------------------------------------------
(* Pass 2: IN/OUT, one instruction per step, sweeps repeated until no OUT  *)
(* set changes.                                                            *)

BitXor(a, b) == (a \ b) \cup (b \ a)
BitAnd(a, b) == a \cap b

\* the OUT sets Pass 2 adds to IN of the instruction at position n
PredOut(n) ==
    IF IsFirst(n)
    THEN UNION {At(i).out : i \in {i \in 0..(Len(DFA) - 1) :
                   \E B \in predecessors(BlockOf(getInstruction(n))) :
                       getInstruction(i) = getTerminator(B)}}
    ELSE At(n - 1).out

NewIn(n) == addSet(At(n).in, PredOut(n))
\* SetDiff with the KILL set never taken out of IN
SetDiffKeepsKilled(in, kill) == in

\* set_diff = IN; set_diff ^= KILL; set_diff &= IN
SetDiff(in, kill) == BitAnd(BitXor(in, kill), in)
\* NewOut with GEN toggled in OUT (^=) where line 454 adds it (|=)
NewOutTogglesGen(n) ==
    addSet(BitXor(At(n).out, At(n).gen), SetDiff(NewIn(n), At(n).kill))

NewOut(n) == addSet(addSet(At(n).out, At(n).gen), SetDiff(NewIn(n), At(n).kill))

Pass2Step ==
    /\ pc = "pass2"
    /\ LET comp == At(index).out
           in == NewIn(index)
           out == NewOut(index)
           changed == out_has_changed \/ comp # out
       IN  /\ DFA' = [DFA EXCEPT ![index + 1].in = in, ![index + 1].out = out]
           /\ IF ~AtEnd
              THEN /\ index' = index + 1
                   /\ out_has_changed' = changed
                   /\ UNCHANGED <<pc, rounds>>
              ELSE /\ index' = 0
                   /\ rounds' = IF rounds < MaxRounds THEN rounds + 1 ELSE rounds
                   /\ out_has_changed' = FALSE
                   /\ pc' = IF changed THEN "pass2" ELSE "pass3"
    /\ UNCHANGED <<F, propagations, foldings, has_modified_code, crash, ex>>

----------------------------------------------------------------------------
(* Pass 3: the propagation and folding plan, one instruction per step.     *)

\* p_dfa->get_in()->size(): one more than the highest bit ever set
BitSize(v) == IF v = {} THEN 0 ELSE 1 + CHOOSE m \in v : \A x \in v : x <= m

ScanEnd(valset, val) == [k |-> "end", valset |-> valset, val |-> val]
ScanAbort == [k |-> "abort", valset |-> FALSE, val |-> Zero64]
ScanOverflow == [k |-> "overflow", valset |-> FALSE, val |-> Zero64]

\* lines 495-520: the scan of IN for the operand of a CAT_get, from bit i on
RECURSIVE propScan(_, _, _, _, _)
propScan(p_in, arg, i, valset, val) ==
    IF i >= BitSize(p_in) THEN ScanEnd(valset, val)
    ELSE IF i \notin p_in THEN propScan(p_in, arg, i + 1, valset, val)
    ELSE LET c_val == definesAsConstant(getInstruction(i), arg)
         IN  IF c_val.k = "overflow" THEN ScanOverflow
             ELSE IF c_val.k = "const"
             THEN IF ~valset THEN propScan(p_in, arg, i + 1, TRUE, c_val.w)
                  ELSE IF val # c_val.w THEN ScanAbort
                  ELSE propScan(p_in, arg, i + 1, valset, val)
             ELSE IF defines(getInstruction(i), arg) THEN ScanAbort
             ELSE propScan(p_in, arg, i + 1, valset, val)

\* val1 != c_val->getSExtValue(): the int is converted to int64_t
IntDiffers(val, c) == SExtInt(val) # c

\* lines 539-579 for one operand of a CAT_add / CAT_sub: val is the int val1 or val2
RECURSIVE foldScan(_, _, _, _, _)
foldScan(p_in, binOpArg, i, valset, val) ==
    IF i >= BitSize(p_in) THEN ScanEnd(valset, val)
    ELSE IF i \notin p_in THEN foldScan(p_in, binOpArg, i + 1, valset, val)
    ELSE LET c_val == definesAsConstant(getInstruction(i), binOpArg)
         IN  IF c_val.k = "overflow" THEN ScanOverflow
             ELSE IF c_val.k = "const"
             THEN IF ~valset THEN foldScan(p_in, binOpArg, i + 1, TRUE, TruncInt(c_val.w))
                  ELSE IF IntDiffers(val, c_val.w) THEN ScanAbort
                  ELSE foldScan(p_in, binOpArg, i + 1, valset, val)
             ELSE IF defines(getInstruction(i), binOpArg) THEN ScanAbort
             ELSE foldScan(p_in, binOpArg, i + 1, valset, val)

IntZero == <<0, 0>>

\* the propagation part of the step for the call callInst with IN set p_in
PropResult(callInst, p_in) ==
    IF Inst(callInst).callee # "CAT_get" THEN ScanEnd(FALSE, Zero64)
    ELSE propScan(p_in, getArgOperand(callInst, 0), 0, FALSE, Zero64)

\* the folding part: the scan of operand 1, then of operand 2 unless the first
\* left by goto CONST_FOLD
FoldArg1(callInst, p_in) == foldScan(p_in, getArgOperand(callInst, 1), 0, FALSE, IntZero)
FoldArg2(callInst, p_in) == foldScan(p_in, getArgOperand(callInst, 2), 0, FALSE, IntZero)
IsBinOp(callInst) == Inst(callInst).callee \in {"CAT_add", "CAT_sub"}

FoldOverflows(callInst, p_in) ==
    /\ IsBinOp(callInst)
    /\ \/ FoldArg1(callInst, p_in).k = "overflow"
       \/ FoldArg1(callInst, p_in).k = "end" /\ FoldArg2(callInst, p_in).k = "overflow"

\* both_consts && val1set && val2set
CanFold(callInst, p_in) ==
    /\ IsBinOp(callInst)
    /\ FoldArg1(callInst, p_in).k = "end" /\ FoldArg1(callInst, p_in).valset
    /\ FoldArg2(callInst, p_in).k = "end" /\ FoldArg2(callInst, p_in).valset

\* f_name == "CAT_add" ? val1 + val2 : val1 - val2, in int
IntResult(f_name, val1, val2) ==
    IF f_name = "CAT_add" THEN AddW(val1, val2) ELSE SubW(val1, val2)
\* whether that int operation overflows (undefined behaviour)
IntOverflows(f_name, val1, val2) ==
    IF f_name = "CAT_add"
    THEN IsNegW(val1) = IsNegW(val2) /\ IsNegW(AddW(val1, val2)) # IsNegW(val1)
    ELSE IsNegW(val1) # IsNegW(val2) /\ IsNegW(SubW(val1, val2)) # IsNegW(val1)

FoldValue(callInst, p_in) ==
    IntResult(Inst(callInst).callee, FoldArg1(callInst, p_in).val, FoldArg2(callInst, p_in).val)

Pass3Advance ==
    IF AtEnd
    THEN pc' = "applyProp" /\ index' = 0
    ELSE pc' = "pass3" /\ index' = index + 1

\* the recursion of definesAsConstant exhausts the stack during the scans
Pass3Overflows ==
    /\ isCallInst(Cur)
    /\ \/ PropResult(Cur, At(index).in).k = "overflow"
       \/ FoldOverflows(Cur, At(index).in)

Pass3Step ==
    /\ pc = "pass3"
    /\ ~Pass3Overflows
    /\ LET callInst == Cur
           p_in == At(index).in
       IN  IF ~isCallInst(callInst)
           THEN UNCHANGED <<propagations, foldings>>
           ELSE /\ LET r == PropResult(callInst, p_in)
                   IN  propagations' =
                          IF r.k = "end" /\ r.valset
                          THEN propagations \cup {[inst |-> callInst, val |-> r.val]}
                          ELSE propagations
                /\ foldings' =
                      IF CanFold(callInst, p_in)
                      THEN foldings \cup {[inst |-> callInst, val |-> FoldValue(callInst, p_in)]}
                      ELSE foldings
    /\ Pass3Advance
    /\ UNCHANGED <<F, DFA, out_has_changed, rounds, has_modified_code, crash, ex>>

Pass3StackOverflow ==
    /\ pc = "pass3"
    /\ Pass3Overflows
    /\ pc' = "crashed"
    /\ crash' = "stack overflow"
    /\ UNCHANGED <<F, index, DFA, out_has_changed, rounds, propagations, foldings,
                   has_modified_code, ex>>

\* a build that traps on signed overflow of val1 + val2 / val1 - val2
Pass3IntTrap ==
    /\ pc = "pass3"
    /\ ~Pass3Overflows
    /\ isCallInst(Cur)
    /\ CanFold(Cur, At(index).in)
    /\ IntOverflows(Inst(Cur).callee, FoldArg1(Cur, At(index).in).val,
                    FoldArg2(Cur, At(index).in).val)
    /\ pc' = "crashed"
    /\ crash' = "int overflow"
    /\ UNCHANGED <<F, index, DFA, out_has_changed, rounds, propagations, foldings,
                   has_modified_code, ex>>

----------------------------------------------------------------------------
(* The two rewriting loops and the return.                                 *)

\* ReplaceInstWithValue: every use of the instruction becomes the value, and
\* the instruction leaves its block
ReplaceUses(args, from, to) == [i \in 1..Len(args) |-> IF args[i] = from THEN to ELSE args[i]]

RECURSIVE Without(_, _)
Without(seq, ids) ==
    IF seq = <<>> THEN <<>>
    ELSE (IF Head(seq) \in ids THEN <<>> ELSE <<Head(seq)>>) \o Without(Tail(seq), ids)

PropValue(id) == (CHOOSE p \in propagations : p.inst = id).val
Propagated == {p.inst : p \in propagations}
Folded == {f.inst : f \in foldings}
FoldInt(id) == (CHOOSE f \in foldings : f.inst = id).val

RECURSIVE ReplaceAll(_, _)
ReplaceAll(args, ids) ==
    IF ids = {} THEN args
    ELSE LET id == CHOOSE x \in ids : TRUE
         IN  ReplaceAll(ReplaceUses(args, VI(id), VC(PropValue(id))), ids \ {id})

ApplyPropagations ==
    /\ pc = "applyProp"
    /\ F' = [F EXCEPT
               !.blocks = [b \in 1..NumBlocks |-> Without(F.blocks[b], Propagated)],
               !.inst = [id \in 1..Len(F.inst) |->
                            [F.inst[id] EXCEPT !.args = ReplaceAll(@, Propagated)]]]
    /\ has_modified_code' = (has_modified_code \/ propagations # {})
    /\ pc' = "applyFold"
    /\ UNCHANGED <<index, DFA, out_has_changed, rounds, propagations, foldings, crash, ex>>

\* CallInst::Create(CAT_set, {getArgOperand(0), ConstantInt::get(ctx, APInt(64, int, true))})
FoldedInst(id) == Set(getArgOperand(id, 0), VC(SExtInt(FoldInt(id))))

\* the foldings are applied, the DFA_SETs are deleted, runOnFunction returns
ApplyFoldings ==
    /\ pc = "applyFold"
    /\ F' = [F EXCEPT
               !.inst = [id \in 1..Len(F.inst) |->
                            IF id \in Folded THEN FoldedInst(id) ELSE F.inst[id]]]
    /\ has_modified_code' = (has_modified_code \/ foldings # {})
    /\ DFA' = <<>>
    /\ pc' = "done"
    /\ UNCHANGED <<index, out_has_changed, rounds, propagations, foldings, crash, ex>>

----------------------------------------------------------------------------
(* The functions the pass is run on.                                       *)

MkF(blocks, succ, inst) == [blocks |-> blocks, succ |-> succ, inst |-> inst]

(* entry: v1 = CAT_new(c1); v2 = CAT_new(c2); br then, else                *)
(* then:  X; br join          else: Y; br join                             *)
(* join:  p = phi [v1, then], [v2, else], [w, dead]; Z; ret                *)
(* dead:  w = CAT_new(c2); CAT_set(v1, 9); br join     (no path from entry)*)
Diamond(c1, c2, X, Y, Z) ==
    MkF(<<<<1, 2, 3>>, <<4, 5>>, <<6, 7>>, <<8, 9, 10>>, <<11, 12, 13>>>>,
        <<{2, 3}, {4}, {4}, {}, {4}>>,
        <<New(VC(c1)), New(VC(c2)), Br, X, Br, Y, Br,
          Phi(<<VI(1), VI(2), VI(11)>>, <<2, 3, 5>>), Z, Ret,
          New(VC(c2)), Set(VI(1), VC(Lit(9))), Br>>)

DiamondX == {Other, Set(VI(1), VC(Lit(5))), Set(VI(1), VC(Lit(9))), Opaque(<<VI(1)>>),
             ICall(<<VI(1)>>), Call("CAT_set", <<>>), Add(VI(1), VI(1), VI(2)), Get(VI(1))}
DiamondY == {Other, Set(VI(2), VC(Lit(9))), Set(VI(1), VC(Lit(5)))}
DiamondZ == {Get(VI(8)), Get(VI(1)), Add(VI(1), VI(1), VI(2)), Sub(VI(8), VI(1), VI(2)),
             Set(VI(8), VC(Lit(5)))}

Diamonds ==
    {Diamond(c1, c2, X, Y, Z) :
        c1 \in {Lit(5), LitHi(5), IntMax64}, c2 \in {Lit(5), Lit(9)},
        X \in DiamondX, Y \in DiamondY, Z \in DiamondZ}

(* entry:  v = CAT_new(c); br header                                       *)
(* header: p = P3 (phi over entry, latch); W; br latch, exit               *)
(* latch:  q = P6 (phi over header, latch); br latch, header               *)
(* exit:   r = phi [p, header]; Z; ret                                     *)
Loop(c, P3, W, P6, Z) ==
    MkF(<<<<1, 2>>, <<3, 4, 5>>, <<6, 7>>, <<8, 9, 10>>>>,
        <<{2}, {3, 4}, {3, 2}, {}>>,
        <<New(VC(c)), Br, P3, W, Br, P6, Br, Phi(<<VI(3)>>, <<2>>), Z, Ret>>)

Loops ==
    {Loop(c, P3, W, P6, Z) :
        c \in {Lit(5), Lit(9)},
        P3 \in {Phi(<<VI(1), VI(6)>>, <<1, 3>>), Phi(<<VI(1), VI(1)>>, <<1, 3>>)},
        W \in {Other, Set(VI(3), VC(Lit(5))), Opaque(<<VI(3)>>), Set(VI(1), VC(Lit(9)))},
        P6 \in {Phi(<<VI(3), VI(6)>>, <<2, 3>>), Phi(<<VI(6), VI(3)>>, <<3, 2>>),
                Phi(<<VI(1), VI(1)>>, <<2, 3>>)},
        Z \in {Get(VI(8)), Get(VI(3)), Get(VI(1))}}

(* a function whose blocks are laid out with the use before the definition *)
(* entry: br def         use: S; CAT_get(v); ret        def: v = CAT_new(c); br use *)
Layout(c, S) ==
    MkF(<<<<1>>, <<2, 3, 4>>, <<5, 6>>>>,
        <<{3}, {}, {2}>>,
        <<Br, S, Get(VI(5)), Ret, New(VC(c)), Br>>)

Layouts ==
    {Layout(c, S) :
        c \in {Lit(5), Lit(9)},
        S \in {Other, Set(VI(5), VC(Lit(5))), Add(VI(5), VI(5), VI(5))}}

(* one block: a = alloca; v = CAT_new(c); store v, a; S1; S2; S3; T; ret;  *)
(* %0 is a pointer argument of the function                                *)
Straight(c, S1, S2, S3, T) ==
    MkF(<<<<1, 2, 3, 4, 5, 6, 7, 8>>>>,
        <<{}>>,
        <<Other, New(VC(c)), Store(VI(2), VI(1)), S1, S2, S3, T, Ret>>)

Straights ==
    {Straight(c, S1, S2, S3, T) :
        c \in {Lit(5), LitHi(5)},
        S1 \in {Other, Load(VI(1)), Opaque(<<VI(1)>>), Set(VA(1), VC(Lit(5)))},
        S2 \in {Other, Set(VA(1), VC(Lit(9))), Opaque(<<VI(2)>>), Set(VI(2), VC(Lit(9))),
                Set(VI(2), VC(Lit(5)))},
        S3 \in {Get(VI(2)), Get(VA(1)), Add(VA(1), VI(2), VI(2)), Sub(VI(2), VI(2), VI(2))},
        T \in {Other, Set(VI(2), VI(6))}}
    \ {Straight(c, S1, S2, S3, Set(VI(2), VI(6))) :
        c \in {Lit(5), LitHi(5)},
        S1 \in {Other, Load(VI(1)), Opaque(<<VI(1)>>), Set(VA(1), VC(Lit(5)))},
        S2 \in {Other, Set(VA(1), VC(Lit(9))), Opaque(<<VI(2)>>), Set(VI(2), VC(Lit(9))),
                Set(VI(2), VC(Lit(5)))},
        S3 \in {Add(VA(1), VI(2), VI(2)), Sub(VI(2), VI(2), VI(2))}}

(* entry:   v = CAT_new(c); w = CAT_new(5); br body1                       *)
(* body i:  S[i]; br body i+1 (exit after the last), body1                 *)
(* exit:    CAT_get(v); ret                                                *)
(* dead:    CAT_set(v, 9); br body1                  (no path from entry)  *)
(* for k = Len(S) loop bodies, every one with a back edge to the first     *)
RECURSIVE ChainBodies(_, _)
ChainBodies(S, i) ==
    IF i > Len(S) THEN <<>> ELSE <<S[i], Br>> \o ChainBodies(S, i + 1)

Chain(c, S) ==
    LET k == Len(S)
    IN  MkF(<<<<1, 2, 3>>>> \o [i \in 1..k |-> <<2 * i + 2, 2 * i + 3>>]
                \o <<<<2 * k + 4, 2 * k + 5>>, <<2 * k + 6, 2 * k + 7>>>>,
            <<{2}>> \o [i \in 1..k |-> {i + 2, 2}] \o <<{}, {2}>>,
            <<New(VC(c)), New(VC(Lit(5))), Br>> \o ChainBodies(S, 1)
                \o <<Get(VI(1)), Ret, Set(VI(1), VC(Lit(9))), Br>>)

ChainSlot == {Other, Set(VI(1), VC(Lit(5))), Set(VI(1), VC(Lit(9))),
              Add(VI(1), VI(1), VI(2)), Opaque(<<VI(1)>>)}

Chains ==
    UNION {{Chain(Lit(5), S) : S \in [1..k -> ChainSlot]} : k \in 1..MaxChain}

Programs == Diamonds \cup Loops \cup Layouts \cup Straights \cup Chains

----------------------------------------------------------------------------
(* runOnFunction on one function.                                          *)

ExIdle == [st |-> "idle"]

InitPass ==
    /\ pc = "pass1"
    /\ index = 0
    /\ DFA = <<>>
    /\ out_has_changed = FALSE
    /\ rounds = 0
    /\ propagations = {}
    /\ foldings = {}
    /\ has_modified_code = FALSE
    /\ crash = ""
    /\ ex = ExIdle

Init == F \in Programs /\ InitPass

Next ==
    \/ Pass1Step
    \/ Pass1NullCallee
    \/ Pass1MissingOperand
    \/ Pass2Step
    \/ Pass3Step
    \/ Pass3StackOverflow
    \/ Pass3IntTrap
    \/ ApplyPropagations
    \/ ApplyFoldings

Spec == Init /\ [][Next]_vars

----------------------------------------------------------------------------
(* One execution of the analysed function, as the CAT API defines it: a    *)
(* CAT_new allocates a variable holding its argument, CAT_set overwrites   *)
(* it, CAT_add / CAT_sub overwrite the target with the 64-bit sum or       *)
(* difference, CAT_get reads it, a phi takes the value of the edge taken,  *)
(* and any other callee may write to the variables it is handed.  It runs  *)
(* once the plan of Pass 3 is complete, on the function as analysed.       *)

ExStart ==
    [st |-> "run", blk |-> 1, pos |-> 1, prev |-> 0,
     env |-> [id \in 1..Len(F.inst) |-> 0],   \* pointer held by each instruction's result
     heap |-> <<>>,                           \* value of each allocated variable
     steps |-> 0,
     read |-> [inst |-> 0, val |-> Zero64]]   \* the last CAT_get and what it returned

ExCur == F.blocks[ex.blk][ex.pos]
ExRunning == ex.st = "run" /\ ex.steps < MaxExecSteps
ExNext(e) == [e EXCEPT !.pos = @ + 1, !.steps = @ + 1]
\* the values an unknown callee may leave in a variable
OpaqueValues == {Lit(5), Lit(9)}

ExecStart ==
    /\ pc = "applyProp"
    /\ ex.st = "idle"
    /\ ex' = ExStart
    /\ UNCHANGED <<F, pc, index, DFA, out_has_changed, rounds, propagations, foldings,
                   has_modified_code, crash>>

\* the effect of a phi, a CAT API call or any non-call instruction
ExecEffect(I) ==
    LET i == Inst(I)
        ptr(v) == ex.env[v.id]
    IN  IF i.op = "phi"
        THEN LET k == CHOOSE k \in 1..Len(i.inb) : i.inb[k] = ex.prev
             IN  [ex EXCEPT !.env[I] = ptr(i.args[k])]
        ELSE IF i.op = "call" /\ i.callee = "CAT_new"
        THEN [ex EXCEPT !.heap = Append(@, i.args[1].w), !.env[I] = Len(ex.heap) + 1]
        ELSE IF i.op = "call" /\ i.callee = "CAT_set"
        THEN [ex EXCEPT !.heap[ptr(i.args[1])] = i.args[2].w]
        ELSE IF i.op = "call" /\ i.callee \in {"CAT_add", "CAT_sub"}
        THEN [ex EXCEPT !.heap[ptr(i.args[1])] =
                 Combine64(i.callee, ex.heap[ptr(i.args[2])], ex.heap[ptr(i.args[3])])]
        ELSE IF i.op = "call" /\ i.callee = "CAT_get"
        THEN [ex EXCEPT !.read = [inst |-> I, val |-> ex.heap[ptr(i.args[1])]]]
        ELSE ex

ExecInstr ==
    /\ ExRunning
    /\ (Inst(ExCur).op \in {"phi", "other"}
           \/ (Inst(ExCur).op = "call" /\ Inst(ExCur).callee \in CAT_API))
    /\ ex' = ExNext(ExecEffect(ExCur))
    /\ UNCHANGED <<F, pc, index, DFA, out_has_changed, rounds, propagations, foldings,
                   has_modified_code, crash>>

\* a call of another function on one variable: it leaves it alone or writes to it
ExecOpaque ==
    /\ ExRunning
    /\ Inst(ExCur).op = "call" /\ Inst(ExCur).callee \notin CAT_API
    /\ \E w \in OpaqueValues \cup {ex.heap[ex.env[Inst(ExCur).args[1].id]]} :
          ex' = ExNext([ex EXCEPT !.heap[ex.env[Inst(ExCur).args[1].id]] = w])
    /\ UNCHANGED <<F, pc, index, DFA, out_has_changed, rounds, propagations, foldings,
                   has_modified_code, crash>>

ExecBranch ==
    /\ ExRunning
    /\ Inst(ExCur).op = "br"
    /\ \E s \in F.succ[ex.blk] :
          ex' = [ex EXCEPT !.blk = s, !.pos = 1, !.prev = ex.blk, !.steps = @ + 1]
    /\ UNCHANGED <<F, pc, index, DFA, out_has_changed, rounds, propagations, foldings,
                   has_modified_code, crash>>

ExecRet ==
    /\ ExRunning
    /\ Inst(ExCur).op = "ret"
    /\ ex' = [ex EXCEPT !.st = "ret"]
    /\ UNCHANGED <<F, pc, index, DFA, out_has_changed, rounds, propagations, foldings,
                   has_modified_code, crash>>

\* the functions that are run: the well-formed diamonds and loops whose phis do
\* not feed each other
ExecPrograms ==
    {Diamond(Lit(5), c2, X, Y, Z) :
        c2 \in {Lit(5), Lit(9)},
        X \in {Other, Set(VI(1), VC(Lit(9))), Opaque(<<VI(1)>>)},
        Y \in {Other, Set(VI(2), VC(Lit(9)))},
        Z \in {Get(VI(8)), Get(VI(1))}}
    \cup
    {Loop(Lit(5), Phi(<<VI(1), VI(1)>>, <<1, 3>>), W, Phi(<<VI(1), VI(1)>>, <<2, 3>>), Z) :
        W \in {Other, Set(VI(3), VC(Lit(9))), Opaque(<<VI(3)>>), Set(VI(1), VC(Lit(5)))},
        Z \in {Get(VI(8)), Get(VI(3)), Get(VI(1))}}

InitExec == F \in ExecPrograms /\ InitPass

NextExec ==
    \/ Pass1Step
    \/ Pass2Step
    \/ Pass3Step
    \/ ExecStart
    \/ ExecInstr
    \/ ExecOpaque
    \/ ExecBranch
    \/ ExecRet

SpecExec == InitExec /\ [][NextExec]_vars

----------------------------------------------------------------------------
(* Notions the properties are stated in, defined on the function itself.   *)

RECURSIVE PathsFrom(_)
PathsFrom(S) ==
    LET N == S \cup {b \in 1..NumBlocks : \E a \in S : b \in F.succ[a]}
    IN  IF N = S THEN S ELSE PathsFrom(N)

\* the block has a path from the entry block
HasPathFromEntry(b) == b \in PathsFrom({1})

Indices == 0..(Len(DFA) - 1)
\* Pass 1 is over, the DFA_SETs are alive and nothing has been rewritten
Pass1Done == pc \in {"pass2", "pass3", "applyProp"}
\* the fixed-point loop of Pass 2 has been left
Pass2Done == pc \in {"pass3", "applyProp"}
\* Pass 3 has planned every rewrite and none has been applied
PlanDone == pc = "applyProp"

IsRedefinition(I) == isCallInst(I) /\ IsRedefName(Inst(I).callee)
IsRead(I) == isCallInst(I) /\ Inst(I).callee = "CAT_get"
\* a call of the expected shape
WellFormed(I) ==
    isCallInst(I) =>
        /\ Inst(I).callee # ""
        /\ Inst(I).callee = "CAT_new" => Len(Inst(I).args) = 1
        /\ Inst(I).callee = "CAT_get" => Len(Inst(I).args) = 1
        /\ Inst(I).callee = "CAT_set" => Len(Inst(I).args) = 2
        /\ Inst(I).callee \in {"CAT_add", "CAT_sub"} => Len(Inst(I).args) = 3

\* the variables L establishes (itself) or redefines (its target)
VarsOf(L) == {VI(L)} \cup (IF IsRedefinition(L) THEN {Inst(L).args[1]} ELSE {})
\* R redefines a variable L establishes or redefines
Redefines(L, R) == IsRedefinition(R) /\ Inst(R).args[1] \in VarsOf(L)

\* the tracked variables: results of CAT_new, phis and pointer arguments
IsTracked(v) ==
    \/ v.k = "a"
    \/ v.k = "i" /\ (isPHINode(v.id) \/ (isCallInst(v.id) /\ Inst(v.id).callee = "CAT_new"))
\* Construct, Overwrite, Combine, Merge, or an opaque call on a tracked variable
IsDefinition(I) ==
    \/ isPHINode(I)
    \/ isCallInst(I) /\ Inst(I).callee \in {"CAT_new", "CAT_set", "CAT_add", "CAT_sub"}
    \/ isCallInst(I) /\ Inst(I).callee \notin CAT_API
          /\ \E k \in 1..Len(Inst(I).args) : IsTracked(Inst(I).args[k])

----------------------------------------------------------------------------
(* C4 *)

\* C4 (kill symmetry): after Pass 1, for all pairs (L, R) of catalogued
\* instructions, L = R and L after R included, isKilledBy(L, R) implies that
\* index(R) is in KILL(L) and index(L) is in KILL(R).
C4_KillSymmetry ==
    Pass1Done =>
        \A l \in Indices : \A r \in Indices :
            isKilledBy(getInstruction(l), getInstruction(r))
                => r \in At(l).kill /\ l \in At(r).kill

\* C4 restricted to pairs of two different instructions: not symmetric either
\* when the killer precedes the killed instruction in program order.
C4_KillSymmetryDistinct ==
    Pass1Done =>
        \A l \in Indices : \A r \in Indices \ {l} :
            isKilledBy(getInstruction(l), getInstruction(r))
                => r \in At(l).kill /\ l \in At(r).kill

----------------------------------------------------------------------------
(* C8 *)

\* C8 (kill oracle): for all instructions L and R of the expected shape,
\* isKilledBy(L, R) is true exactly when R is a CAT_set, CAT_add or CAT_sub
\* whose argument 0 is the variable L establishes or redefines, whatever kind
\* of value that variable is.
C8_KillOracle ==
    Pass1Done =>
        \A l \in Indices : \A r \in Indices :
            LET L == getInstruction(l)
                R == getInstruction(r)
            IN  (WellFormed(L) /\ WellFormed(R)) => (isKilledBy(L, R) <=> Redefines(L, R))

----------------------------------------------------------------------------
(* C7 *)

\* C7 (malformed input): a call with no known callee, or a tracked-API call
\* missing an operand, never takes the pass to a crash.
C7_NoCrashOnMalformed == crash \notin {"null callee", "missing operand"}

----------------------------------------------------------------------------
(* C10 *)

\* C10 (merge resolution terminates): definesAsConstant returns for every
\* graph of phis, so the pass never exhausts the stack in its recursion.
C10_MergeResolutionReturns == crash # "stack overflow"

----------------------------------------------------------------------------
(* C9 *)

\* C9 (GEN invariant, as claimed): after Pass 1, GEN(i) = {i} if i is a
\* definition and GEN(i) is empty otherwise (a CAT_get, a branch, a return).
C9_GenOnlyForDefinitions ==
    Pass1Done =>
        \A i \in Indices :
            At(i).gen = (IF IsDefinition(getInstruction(i)) THEN {i} ELSE {})

\* C9 (amended): after Pass 1, GEN(i) = {i} for every catalogued instruction
\* i, whether or not i is a definition.
C9_GenIsOwnIndex ==
    Pass1Done => \A i \in Indices : At(i).gen = {i}

\* a CAT_get, a branch and a return have been catalogued by Pass 1
C9_Witness ==
    /\ Pass1Done
    /\ \E i \in Indices : IsRead(getInstruction(i)) /\ At(i).gen = {i}
    /\ \E i \in Indices : Inst(getInstruction(i)).op = "br" /\ At(i).gen = {i}
    /\ \E i \in Indices : Inst(getInstruction(i)).op = "ret" /\ At(i).gen = {i}

----------------------------------------------------------------------------
(* C5 *)

\* the catalogued instructions whose OUT flows into instruction n: the one
\* before it in its block, or the terminators of the predecessor blocks among
\* the blocks R that have a path from the entry
FlowPredsIn(R, n) ==
    LET I == getInstruction(n)
        b == BlockOf(I)
        terminators == {F.blocks[a][Len(F.blocks[a])] : a \in {a \in R : b \in F.succ[a]}}
    IN  IF F.blocks[b][1] # I THEN {n - 1}
        ELSE {p \in Indices : getInstruction(p) \in terminators}

FlowPreds(n) == FlowPredsIn(PathsFrom({1}), n)

\* C5 (fixed point): when the loop of Pass 2 ends, every instruction i has
\* IN(i) = union of OUT(p) over its predecessors p and
\* OUT(i) = GEN(i) \cup (IN(i) \ KILL(i)), and one more step of the engine
\* on any instruction changes neither its IN nor its OUT.
C5_FixedPoint ==
    Pass2Done =>
        LET R == PathsFrom({1})
        IN  \A i \in Indices :
                /\ At(i).in = UNION {At(p).out : p \in FlowPredsIn(R, i)}
                /\ At(i).out = At(i).gen \cup (At(i).in \ At(i).kill)
                /\ NewIn(i) = At(i).in
                /\ NewOut(i) = At(i).out

\* the loop ended after at least three sweeps on a function with a loop, with
\* a definition killed on the way and two definitions meeting at a join
C5_Witness ==
    /\ Pass2Done
    /\ rounds >= 3
    /\ \E i \in Indices : (At(i).in \cap At(i).kill) # {}
    /\ \E i \in Indices : Cardinality(FlowPreds(i)) >= 2 /\ Cardinality(At(i).in) >= 3

----------------------------------------------------------------------------
(* C6 *)

\* C6 (unreachable code): no instruction of a block without a path from the
\* entry is ever catalogued, and every bit of every IN and OUT set is the
\* index of a catalogued instruction, hence of an instruction with such a path.
C6_UnreachableExcluded ==
    (pc \in {"pass1", "pass2", "pass3", "applyProp"}) =>
        LET R == PathsFrom({1})
            catalogued == {getInstruction(i) : i \in Indices}
        IN  /\ \A I \in catalogued : BlockOf(I) \in R
            /\ \A i \in Indices : At(i).in \subseteq Indices /\ At(i).out \subseteq Indices
            /\ Pass1Done => \A I \in 1..Len(F.inst) : I \in catalogued <=> BlockOf(I) \in R

\* the fixed point of a function in which a block without a path from the
\* entry is a predecessor of a block with one, whose IN set is not empty
C6_Witness ==
    /\ Pass2Done
    /\ \E a \in 1..NumBlocks : \E b \in F.succ[a] :
          /\ ~HasPathFromEntry(a) /\ HasPathFromEntry(b)
          /\ \E i \in Indices : getInstruction(i) = F.blocks[b][1] /\ At(i).in # {}

----------------------------------------------------------------------------
(* C2, C3 *)

\* the definitions of the variable v in IN of instruction n
ReachingDefs(n, v) == {d \in At(n).in : defines(getInstruction(d), v)}
\* the constants those definitions set v to
ReachingConsts(n, v) ==
    {definesAsConstant(getInstruction(d), v).w :
        d \in {d \in ReachingDefs(n, v) : definesAsConstant(getInstruction(d), v).k = "const"}}
\* two definitions of v in IN of n set it to different 64-bit constants
Disagree(n, v) == Cardinality(ReachingConsts(n, v)) >= 2
\* every definition of v in IN of n sets it to the constant x
AllReachingAre(n, v, x) ==
    /\ ReachingDefs(n, v) # {}
    /\ \A d \in ReachingDefs(n, v) : definesAsConstant(getInstruction(d), v) = ConstPtr(x)

\* C2 (conservativeness under disagreement): when IN of a CAT_get holds two
\* definitions of its operand with different 64-bit constants no propagation
\* is planned for it, and when IN of a CAT_add / CAT_sub holds two such
\* definitions of operand 1 or of operand 2 no folding is planned for it.
C2_NoRewriteOnDisagreement ==
    PlanDone =>
        \A n \in Indices :
            LET I == getInstruction(n)
            IN  /\ (IsRead(I) /\ WellFormed(I) /\ Disagree(n, getArgOperand(I, 0)))
                       => I \notin Propagated
                /\ (isCallInst(I) /\ IsBinOp(I) /\ WellFormed(I)
                      /\ (Disagree(n, getArgOperand(I, 1)) \/ Disagree(n, getArgOperand(I, 2))))
                       => I \notin Folded

\* C3 (folded value): a CAT_add / CAT_sub (t, a, b) all of whose reaching
\* definitions of a are the constant x and of b the constant y is planned to
\* be folded, and the instruction built for it is CAT_set(t, x + y) or
\* CAT_set(t, x - y) computed in wrapping signed 64-bit arithmetic.
C3_FoldedValue ==
    PlanDone =>
        \A n \in Indices :
            LET I == getInstruction(n)
            IN  (isCallInst(I) /\ IsBinOp(I) /\ WellFormed(I)) =>
                    \A x \in ReachingConsts(n, getArgOperand(I, 1)) :
                    \A y \in ReachingConsts(n, getArgOperand(I, 2)) :
                        (AllReachingAre(n, getArgOperand(I, 1), x)
                            /\ AllReachingAre(n, getArgOperand(I, 2), y))
                        => /\ I \in Folded
                           /\ FoldedInst(I) =
                                 Set(getArgOperand(I, 0), VC(Combine64(Inst(I).callee, x, y)))

----------------------------------------------------------------------------
(* C1 *)

\* C1 (soundness of propagation): whenever an execution of the function
\* reaches a CAT_get that the pass plans to replace by the literal c, the
\* value the CAT_get reads is c.
C1_PropagationSound ==
    (ex.st # "idle" /\ ex.read.inst \in Propagated) => ex.read.val = PropValue(ex.read.inst)

----------------------------------------------------------------------------
(* C11 *)

\* v is handed to a callee outside the CAT API by the call D
HandsOver(D, v) ==
    /\ isCallInst(D) /\ Inst(D).callee \notin CAT_API
    /\ \E k \in 1..Len(Inst(D).args) : Inst(D).args[k] = v
\* D is the definition of another variable: it neither is v nor redefines v
OfOtherVariable(D, v) ==
    /\ WellFormed(D)
    /\ VI(D) # v
    /\ ~(IsRedefinition(D) /\ Inst(D).args[1] = v)
    /\ ~HandsOver(D, v)

\* C11 (other variables are ignored): for every CAT_get / CAT_add / CAT_sub
\* and every instruction D in its IN set that neither is the operand v nor
\* redefines v, the scan of IN for v ends as it does on IN without D: the same
\* candidate constant, the same abort or not.
C11_OtherDefinitionsIgnored ==
    Pass2Done =>
        \A n \in Indices :
            LET I == getInstruction(n)
                p_in == At(n).in
            IN  (isCallInst(I) /\ WellFormed(I)) =>
                    \A d \in p_in :
                        LET D == getInstruction(d)
                        IN  /\ (IsRead(I) /\ OfOtherVariable(D, getArgOperand(I, 0)))
                                => PropResult(I, p_in \ {d}) = PropResult(I, p_in)
                            /\ (IsBinOp(I) /\ OfOtherVariable(D, getArgOperand(I, 1)))
                                => FoldArg1(I, p_in \ {d}) = FoldArg1(I, p_in)
                            /\ (IsBinOp(I) /\ OfOtherVariable(D, getArgOperand(I, 2)))
                                => FoldArg2(I, p_in \ {d}) = FoldArg2(I, p_in)

----------------------------------------------------------------------------
(* C12 *)

(* runOnFunction is one sequential call: once in the do/while of Pass 2    *)
(* it keeps executing its body, so a step of Pass 2 that can be taken is   *)
(* eventually taken.                                                       *)
(* The functions it is run on here: the loops, the layouts, and the        *)
(* diamonds that differ in their two branches.                             *)
FairPrograms ==
    Loops \cup Layouts
    \cup {Diamond(Lit(5), Lit(5), X, Y, Get(VI(8))) : X \in DiamondX, Y \in DiamondY}

InitFair == F \in FairPrograms /\ InitPass

NextFair ==
    \/ Pass1Step
    \/ Pass2Step

SpecFair == InitFair /\ [][NextFair]_vars /\ WF_vars(Pass2Step)

\* the function has a loop: a block on a path from one of its successors
HasLoop == \E b \in 1..NumBlocks : b \in PathsFrom(F.succ[b])
\* two different catalogued instructions each in the KILL set of the other
HasSymmetricKill ==
    \E i \in Indices : \E j \in Indices \ {i} : j \in At(i).kill /\ i \in At(j).kill

\* C12 (termination of Pass 2): on every function, with loops and with
\* symmetric KILL pairs included, the do/while of Pass 2 entered with all IN
\* and OUT sets empty eventually makes a sweep in which no OUT set changes
\* and is left for Pass 3; no bound on the number of sweeps is involved.
C12_Pass2Terminates == (pc = "pass2") ~> (pc = "pass3")

\* Pass 2 has just been left, after three sweeps or more, on a function with
\* a loop and a symmetric KILL pair
C12_Witness ==
    /\ pc = "pass3" /\ index = 0
    /\ rounds >= 3
    /\ HasLoop
    /\ HasSymmetricKill

----------------------------------------------------------------------------
(* C13 *)

\* C13 (monotone growth): a step of Pass 2 removes no bit from any IN or OUT
\* set -- IN(i) and OUT(i) before the step are subsets of IN(i) and OUT(i)
\* after it, for every instruction i, hence between any two successive
\* updates of i -- and leaves every GEN and KILL set, and the catalogue, as
\* they were.
C13_MonotoneGrowth ==
    [][pc = "pass2" =>
          /\ Len(DFA') = Len(DFA)
          /\ \A i \in 1..Len(DFA) :
                /\ DFA[i].in \subseteq DFA'[i].in
                /\ DFA[i].out \subseteq DFA'[i].out
                /\ DFA'[i].gen = DFA[i].gen
                /\ DFA'[i].kill = DFA[i].kill
                /\ DFA'[i].inst = DFA[i].inst]_vars

\* in its second sweep or a later one Pass 2 has added a bit to an OUT set,
\* and the instruction it has just updated holds in IN a bit of its KILL set
C13_Witness ==
    /\ pc = "pass2"
    /\ rounds >= 1
    /\ out_has_changed
    /\ index > 0
    /\ (At(index - 1).in \cap At(index - 1).kill) # {}
    /\ At(index - 1).in \ At(index - 1).out # {}

====
